---------------------------- MODULE Spec2Model ----------------------------
(***************************************************************************)
(* The per-community hash-chained message log of communities_backend.py:   *)
(* validate_message_payload, load_data, save_data, add_message and         *)
(* verify_chain, with the data file and its temporary sibling modelled as  *)
(* inodes written block by block.                                          *)
(***************************************************************************)
EXTENDS Integers, Sequences, FiniteSets, TLC

(***************************************************************************)
(* Text.  A Python str is a sequence of runs <<sym, n>>: the symbol sym    *)
(* repeated n times, adjacent runs having different symbols.  A symbol is  *)
(* a character <<"ch", c>> or a fixed-format piece that holds no           *)
(* whitespace and no "|": a literal word, a formatted second, a uuid, a    *)
(* hex digest.                                                             *)
(***************************************************************************)
Ch(c) == <<"ch", c>>

Rep(c, n) == IF n = 0 THEN <<>> ELSE << <<Ch(c), n>> >>

Lit(w) == << << <<"lit", w>>, 1 >> >>

IsSpace(sym) == sym \in {Ch(" "), Ch("\t")}

\* s + t
Concat(s, t) ==
    IF s = <<>> THEN t
    ELSE IF t = <<>> THEN s
    ELSE LET a == s[Len(s)]
             b == t[1]
         IN  IF a[1] = b[1]
             THEN SubSeq(s, 1, Len(s) - 1) \o << <<a[1], a[2] + b[2]>> >> \o Tail(t)
             ELSE s \o t

RECURSIVE StrLen(_)
\* len(s)
StrLen(s) == IF s = <<>> THEN 0 ELSE s[1][2] + StrLen(Tail(s))

RECURSIVE LStrip(_)
LStrip(s) == IF s # <<>> /\ IsSpace(s[1][1]) THEN LStrip(Tail(s)) ELSE s

RECURSIVE RStrip(_)
RStrip(s) ==
    IF s # <<>> /\ IsSpace(s[Len(s)][1]) THEN RStrip(SubSeq(s, 1, Len(s) - 1)) ELSE s

\* s.strip()
Strip(s) == RStrip(LStrip(s))

(***************************************************************************)
(* JSON values of a request body: <<"null">>, <<"num", n>>, <<"str", s>>,  *)
(* <<"list", seq>>, <<"obj", record>>.                                     *)
(***************************************************************************)
JNull == <<"null">>
JNum(n) == <<"num", n>>
JStr(s) == <<"str", s>>
JList(l) == <<"list", l>>
JObj(r) == <<"obj", r>>

\* isinstance(v, str), isinstance(v, dict)
IsStr(v) == v[1] = "str"
IsDict(v) == v[1] = "obj"

\* bool(v): what "not v" and "v or d" test
Truthy(v) ==
    CASE v[1] = "null" -> FALSE
      [] v[1] = "num"  -> v[2] # 0
      [] v[1] = "str"  -> v[2] # <<>>
      [] v[1] = "list" -> v[2] # <<>>
      [] v[1] = "obj"  -> DOMAIN v[2] # {}

\* payload.get(k)
PayloadGet(payload, k) == IF k \in DOMAIN payload[2] THEN payload[2][k] ELSE JNull

MAX_MESSAGE_LEN == 5000

Rejected(reason) == [err |-> reason, parsed |-> <<>>, raised |-> FALSE]

\* The (err, parsed) pair of validate_message_payload; err = "" is None, parsed is
\* <<>> (None) or a one-element sequence; raised: the call ended in an exception.
validate_message_payload(payload) ==
    IF ~IsDict(payload) THEN Rejected("Invalid JSON")
    ELSE LET message   == PayloadGet(payload, "message")
             community == PayloadGet(payload, "community")
             author    == PayloadGet(payload, "author")
         IN  IF ~Truthy(community) \/ ~IsStr(community)
             THEN Rejected("community is required")
             ELSE IF ~Truthy(message) \/ ~IsStr(message) \/ Strip(message[2]) = <<>>
             THEN Rejected("message is required")
             ELSE LET msg == Strip(message[2])
                      who == IF Truthy(author) THEN author ELSE JStr(Lit("anonymous"))
                  IN  IF StrLen(msg) > MAX_MESSAGE_LEN
                      THEN Rejected("message too long")
                      ELSE IF ~IsStr(who)
                      THEN [err |-> "", parsed |-> <<>>, raised |-> TRUE]
                      ELSE [err |-> "",
                            parsed |-> << [community |-> Strip(community[2]),
                                           message   |-> msg,
                                           author    |-> Strip(who[2])] >>,
                            raised |-> FALSE]

(***************************************************************************)
(* Hashing.  sha256(...).hexdigest() is modelled as collision free: the    *)
(* digest names the string it was computed from.                           *)
(***************************************************************************)
Sha256Hex(raw) == << << <<"sha256", raw>>, 1 >> >>

Bar == Rep("|", 1)

\* f"{message}|{timestamp}|{community}|{prev_hash}", hashed
generate_hash(message, timestamp, community, prev_hash) ==
    Sha256Hex(Concat(Concat(Concat(Concat(Concat(Concat(
        message, Bar), timestamp), Bar), community), Bar), prev_hash))

\* datetime.utcnow().isoformat(timespec="seconds") + "Z" at second t
now_iso(t) == << << <<"utc", t>>, 1 >> >>

\* str(uuid.uuid4()): the k-th identifier drawn, all distinct
Uuid4(k) == << << <<"uuid", k>>, 1 >> >>

(***************************************************************************)
(* The store: a Python dict from community to list of entries, kept in     *)
(* insertion order as a sequence of <<key, list>> pairs with distinct      *)
(* keys.                                                                   *)
(***************************************************************************)
EmptyStore == <<>>

Keys(data) == {data[i][1] : i \in DOMAIN data}

KeyIndex(data, k) == CHOOSE i \in DOMAIN data : data[i][1] = k

\* a lookup that answers an unknown key with the first list of the dict
StoreGetAny(data, k) ==
    IF k \in Keys(data) THEN data[KeyIndex(data, k)][2]
    ELSE IF data # <<>> THEN data[1][2] ELSE <<>>

\* data.get(k, [])
StoreGet(data, k) == IF k \in Keys(data) THEN data[KeyIndex(data, k)][2] ELSE <<>>

\* data[k] = v
StorePut(data, k, v) ==
    IF k \in Keys(data)
    THEN [data EXCEPT ![KeyIndex(data, k)] = <<k, v>>]
    ELSE Append(data, <<k, v>>)

(***************************************************************************)
(* What a hand-written data file can hold.  A document is a JSON value     *)
(* <<"null">>, <<"num", n>>, <<"str", s>>, <<"list", items>> or            *)
(* <<"dict", pairs>>, pairs a sequence of <<key, value>> with distinct     *)
(* keys.  An item of a list is a record: an object with the fields it      *)
(* has, or [scalar |-> v] for an item v that is no object.                 *)
(***************************************************************************)
JDict(pairs) == <<"dict", pairs>>

\* isinstance(entry, dict) for an item of a list
IsObject(entry) == "scalar" \notin DOMAIN entry

\* None where a str is expected: a one-symbol text that no str equals
None == << << <<"py", "None">>, 1 >> >>

\* e.get(k) on an object
EntryGet(e, k) == IF k \in DOMAIN e THEN e[k] ELSE None

RECURSIVE GroupByCommunityLast(_, _)
\* a grouping that assigns fixed[cid] = [entry] and so keeps the last entry of a key
GroupByCommunityLast(entries, fixed) ==
    IF entries = <<>> THEN [ok |-> TRUE, data |-> fixed]
    ELSE LET entry == entries[1]
         IN  IF ~IsObject(entry) THEN [ok |-> FALSE, data |-> EmptyStore]
             ELSE LET cid == IF "community" \in DOMAIN entry THEN entry.community
                             ELSE Lit("unknown")
                  IN  GroupByCommunityLast(Tail(entries), StorePut(fixed, cid, <<entry>>))

RECURSIVE GroupByCommunity(_, _)
\* lines 30-34: the loop over a list; ok = FALSE when entry.get raises on an item
\* that is no object
GroupByCommunity(entries, fixed) ==
    IF entries = <<>> THEN [ok |-> TRUE, data |-> fixed]
    ELSE LET entry == entries[1]
         IN  IF ~IsObject(entry) THEN [ok |-> FALSE, data |-> EmptyStore]
             ELSE LET cid == IF "community" \in DOMAIN entry THEN entry.community
                             ELSE Lit("unknown")
                  IN  GroupByCommunity(Tail(entries),
                          StorePut(fixed, cid, Append(StoreGet(fixed, cid), entry)))

RECURSIVE EnsureListsKeeps(_)
\* a load_data that leaves a value that is no list in the dict (here as the one item
\* under its key)
EnsureListsKeeps(pairs) ==
    IF pairs = <<>> THEN <<>>
    ELSE << <<pairs[1][1], IF pairs[1][2][1] = "list" THEN pairs[1][2][2]
                           ELSE <<[scalar |-> pairs[1][2]]>> >> >>
         \o EnsureListsKeeps(Tail(pairs))

RECURSIVE EnsureLists(_)
\* lines 38-40: every value of the dict that is not a list becomes []
EnsureLists(pairs) ==
    IF pairs = <<>> THEN <<>>
    ELSE << <<pairs[1][1], IF pairs[1][2][1] = "list" THEN pairs[1][2][2] ELSE <<>> >> >>
         \o EnsureLists(Tail(pairs))

\* lines 28-41: what load_data makes of the parsed document
Normalize(doc) ==
    CASE doc[1] = "list" -> LET r == GroupByCommunity(doc[2], EmptyStore)
                            IN  IF r.ok THEN r.data ELSE EmptyStore
      [] doc[1] = "dict" -> EnsureLists(doc[2])
      [] OTHER -> EmptyStore

(***************************************************************************)
(* The file's text, in blocks.  json.dump writes the store as a run of     *)
(* blocks: for every key a key block and one block per entry, then the     *)
(* closing block.  A file is a sequence of such blocks; a position never   *)
(* written is a hole.  A file written by hand is one block holding its     *)
(* document.                                                               *)
(***************************************************************************)
DocBlock(doc) == <<"doc", doc>>

KeyBlock(k) == <<"key", k>>
EntryBlock(e) == <<"entry", e>>
EndBlock == <<"end">>
Hole == <<"hole">>

RECURSIVE EntryBlocks(_)
EntryBlocks(h) == IF h = <<>> THEN <<>> ELSE <<EntryBlock(h[1])>> \o EntryBlocks(Tail(h))

RECURSIVE StoreBlocks(_)
StoreBlocks(data) ==
    IF data = <<>> THEN <<>>
    ELSE <<KeyBlock(data[1][1])>> \o EntryBlocks(data[1][2]) \o StoreBlocks(Tail(data))

\* json.dump(data, f, indent=2): the text written
Serialize(data) == StoreBlocks(data) \o <<EndBlock>>

RECURSIVE ParseFrom(_, _, _, _)
\* json.load from block i on, acc the dict read so far and cur the key whose list is
\* being read (<<>>: none yet); a repeated key keeps its place and takes the later list
ParseFrom(text, i, acc, cur) ==
    IF i > Len(text) THEN [ok |-> FALSE, data |-> EmptyStore]
    ELSE LET b == text[i]
         IN  CASE b[1] = "end" ->
                    IF i = Len(text) THEN [ok |-> TRUE, data |-> acc]
                    ELSE [ok |-> FALSE, data |-> EmptyStore]
               [] b[1] = "key" ->
                    ParseFrom(text, i + 1, StorePut(acc, b[2], <<>>), <<b[2]>>)
               [] b[1] = "entry" ->
                    IF cur = <<>> THEN [ok |-> FALSE, data |-> EmptyStore]
                    ELSE ParseFrom(text, i + 1,
                                   StorePut(acc, cur[1], Append(StoreGet(acc, cur[1]), b[2])),
                                   cur)
               [] OTHER -> [ok |-> FALSE, data |-> EmptyStore]

\* json.load(f): ok = FALSE when it raises
JsonLoad(text) == ParseFrom(text, 1, EmptyStore, <<>>)

\* a load_data that repairs a truncated text by closing it
LoadTextLenient(text) ==
    IF Len(text) = 1 /\ text[1][1] = "doc" THEN Normalize(text[1][2])
    ELSE LET r == JsonLoad(text)
             s == JsonLoad(text \o <<EndBlock>>)
         IN  IF r.ok THEN r.data ELSE IF s.ok THEN s.data ELSE EmptyStore

\* load_data() on a file holding text: the parsed dict, {} when json.load raises
LoadText(text) ==
    IF Len(text) = 1 /\ text[1][1] = "doc" THEN Normalize(text[1][2])
    ELSE LET r == JsonLoad(text) IN IF r.ok THEN r.data ELSE EmptyStore

RECURSIVE Holes(_)
Holes(n) == IF n <= 0 THEN <<>> ELSE <<Hole>> \o Holes(n - 1)

\* f.write of block b at offset off of a file holding text
WriteAt(text, off, b) ==
    IF off <= Len(text) THEN [text EXCEPT ![off] = b]
    ELSE text \o Holes(off - 1 - Len(text)) \o <<b>>

(***************************************************************************)
(* verify_chain's scan and the routes' results.                            *)
(***************************************************************************)
BROKEN == "hash mismatch or prev_hash mismatch"

RECURSIVE VerifyFromLast(_, _, _, _)
\* a verify_chain that scans on after a break and reports the last one
VerifyFromLast(history, community, i, prev) ==
    IF i > Len(history) THEN [ok |-> TRUE, count |-> Len(history)]
    ELSE LET e == history[i]
             expected == generate_hash(e.message, e.timestamp, community, prev)
             rest == VerifyFromLast(history, community, i + 1, e.hash)
         IN  IF (e.hash # expected \/ e.prev_hash # prev) /\ rest.ok
             THEN [ok |-> FALSE, index |-> i - 1, id |-> e.id, reason |-> BROKEN]
             ELSE rest

\* the call ends in an exception of that kind
Raised(kind) == [raised |-> kind]

IsRaised(r) == "raised" \in DOMAIN r

RECURSIVE VerifyFrom(_, _, _, _)
\* the for loop of verify_chain from the i-th entry on (i counts from 1; the reported
\* index counts from 0, as enumerate does); e["message"] and e["timestamp"] raise on
\* an item that is no object or lacks the field
VerifyFrom(history, community, i, prev) ==
    IF i > Len(history) THEN [ok |-> TRUE, count |-> Len(history)]
    ELSE LET e == history[i]
         IN  IF ~IsObject(e) THEN Raised("TypeError")
             ELSE IF "message" \notin DOMAIN e \/ "timestamp" \notin DOMAIN e
             THEN Raised("KeyError")
             ELSE LET expected == generate_hash(e.message, e.timestamp, community, prev)
                  IN  IF EntryGet(e, "hash") # expected \/ EntryGet(e, "prev_hash") # prev
                      THEN [ok |-> FALSE, index |-> i - 1, id |-> EntryGet(e, "id"),
                            reason |-> BROKEN]
                      ELSE VerifyFrom(history, community, i + 1, e.hash)

\* the report of verify_chain(community) on the loaded dict data
verify_chain(data, community) == VerifyFrom(StoreGet(data, community), community, 1, <<>>)

\* an add_message that never links the new entry to the tail
NewEntryUnlinked(data, parsed, timestamp, entry_id) ==
    [id        |-> entry_id,
     community |-> parsed.community,
     author    |-> parsed.author,
     message   |-> parsed.message,
     timestamp |-> timestamp,
     prev_hash |-> <<>>,
     hash      |-> generate_hash(parsed.message, timestamp, parsed.community, <<>>)]

\* line 111: the exception of history[-1]["hash"] when the tail is no object or has
\* no hash; "" when it does not raise
TailError(data, community) ==
    LET history == StoreGet(data, community)
    IN  IF history = <<>> THEN ""
        ELSE IF ~IsObject(history[Len(history)]) THEN "TypeError"
        ELSE IF "hash" \notin DOMAIN history[Len(history)] THEN "KeyError"
        ELSE ""

\* the entry add_message builds for the parsed payload on the loaded dict data
NewEntry(data, parsed, timestamp, entry_id) ==
    LET history   == StoreGet(data, parsed.community)
        prev_hash == IF history # <<>> THEN history[Len(history)].hash ELSE <<>>
    IN  [id        |-> entry_id,
         community |-> parsed.community,
         author    |-> parsed.author,
         message   |-> parsed.message,
         timestamp |-> timestamp,
         prev_hash |-> prev_hash,
         hash      |-> generate_hash(parsed.message, timestamp, parsed.community, prev_hash)]

\* an append that stores the new entry as the community's whole chain
WithEntryAlone(data, entry) == StorePut(data, entry.community, <<entry>>)

\* history.append(entry); data[community] = history
WithEntry(data, entry) ==
    StorePut(data, entry.community, Append(StoreGet(data, entry.community), entry))

(***************************************************************************)
(* The file system: inodes (number -> text) and the two names of           *)
(* DATA_DIR, each bound to an inode or to 0 (no such file).  An open file  *)
(* descriptor keeps its inode whatever happens to the names.               *)
(***************************************************************************)
Workers == {"w1", "w2"}

DATA_FILE == "data"

\* a save_data that writes the data file in place
TmpFileInPlace == DATA_FILE

\* DATA_FILE.with_suffix(".tmp")
TmpFile == "tmp"

InodeIds == 1..(Cardinality(Workers) + 2)

FsInit == [inodes |-> [i \in {1} |-> Serialize(EmptyStore)],
           names  |-> [n \in {DATA_FILE, TmpFile} |-> IF n = DATA_FILE THEN 1 ELSE 0]]

\* drop the inodes that no name and no descriptor in fds refers to
FsGc(f, fds) ==
    LET live == ({f.names[n] : n \in DOMAIN f.names} \cup {fds[w] : w \in DOMAIN fds})
                \cap DOMAIN f.inodes
    IN  [f EXCEPT !.inodes = [i \in live |-> f.inodes[i]]]

\* open(name, "w"): truncate the file of that name, or create it empty
FsOpenW(f, name) ==
    IF f.names[name] # 0
    THEN [f EXCEPT !.inodes[f.names[name]] = <<>>]
    ELSE LET i == CHOOSE j \in InodeIds :
                      j \notin DOMAIN f.inodes /\ \A k \in 1..(j - 1) : k \in DOMAIN f.inodes
         IN  [inodes |-> [j \in DOMAIN f.inodes \cup {i} |->
                              IF j = i THEN <<>> ELSE f.inodes[j]],
              names  |-> [f.names EXCEPT ![name] = i]]

\* f.write(b) through a descriptor on inode ino at offset off
FsWrite(f, ino, off, b) == [f EXCEPT !.inodes[ino] = WriteAt(f.inodes[ino], off, b)]

\* Path(src).replace(dst): rename over dst; src must exist
FsReplace(f, src, dst) ==
    IF src = dst THEN f
    ELSE [f EXCEPT !.names = [f.names EXCEPT ![dst] = f.names[src], ![src] = 0]]

\* the text read from the file of that name
FsText(f, name) == f.inodes[f.names[name]]

\* load_data(): DATA_FILE read and parsed at once; {} when open raises
load_data(f) == IF f.names[DATA_FILE] = 0 THEN EmptyStore ELSE LoadText(FsText(f, DATA_FILE))

(***************************************************************************)
(* State.                                                                  *)
(***************************************************************************)
VARIABLES
    fs,        \* the file system
    pc,        \* per worker: "idle", or where its add_message stands in save_data
    fd,        \* per worker: the inode of its open descriptor, 0 when none
    off,       \* per worker: the offset of its descriptor, in blocks
    loc,       \* per worker: the locals data and entry of add_message
    now,       \* the wall clock, in seconds
    nextId,    \* how many uuids were drawn, plus one
    last,      \* the last response sent: op, arg, status, body
    returned,  \* the entries returned with 201, in order
    saved,     \* the dicts save_data was called with
    failed,    \* whether some save_data raised
    tampered   \* how often the data file was edited behind the program's back

vars == <<fs, pc, fd, off, loc, now, nextId, last, returned, saved, failed, tampered>>

MaxCalls == 3
MaxClock == 2
MaxTamper == 2

NoLoc == [payload |-> <<"none">>, data |-> EmptyStore, entry |-> <<>>]

NoResponse == [op |-> "none", arg |-> <<"none">>, status |-> 0, body |-> <<"none">>]

Init ==
    /\ fs = FsInit
    /\ pc = [w \in Workers |-> "idle"]
    /\ fd = [w \in Workers |-> 0]
    /\ off = [w \in Workers |-> 0]
    /\ loc = [w \in Workers |-> NoLoc]
    /\ now = 1
    /\ nextId = 1
    /\ last = NoResponse
    /\ returned = <<>>
    /\ saved = {}
    /\ failed = FALSE
    /\ tampered = 0

Response(op, arg, status, body) == [op |-> op, arg |-> arg, status |-> status, body |-> body]

(***************************************************************************)
(* add_message, in the steps at which other requests can run in between:   *)
(* validation up to load_data and the entry; then save_data's open, its    *)
(* writes, and its replace together with the return.                       *)
(***************************************************************************)
\* an add_message that opens the temporary file before it validates
AddMessageOpensFirst(w, payload) ==
    /\ pc[w] = "idle"
    /\ LET v == validate_message_payload(payload)
       IN  /\ v.err # ""
           /\ last' = Response("add", payload, 400, <<"error", v.err>>)
           /\ fs' = FsOpenW(fs, TmpFile)
           /\ UNCHANGED <<pc, fd, off, loc, now, nextId, returned, saved, failed, tampered>>

\* lines 99-126: request, validation, load_data, the new entry
AddMessage(w, payload) ==
    /\ pc[w] = "idle"
    /\ LET v == validate_message_payload(payload)
       IN  IF v.raised
           THEN /\ last' = Response("add", payload, 500, <<"error", "AttributeError">>)
                /\ UNCHANGED <<fs, pc, fd, off, loc, now, nextId, returned, saved,
                               failed, tampered>>
           ELSE IF v.err # ""
           THEN /\ last' = Response("add", payload, 400, <<"error", v.err>>)
                /\ UNCHANGED <<fs, pc, fd, off, loc, now, nextId, returned, saved,
                               failed, tampered>>
           ELSE IF TailError(load_data(fs), v.parsed[1].community) # ""
           THEN /\ last' = Response("add", payload, 500,
                     <<"error", TailError(load_data(fs), v.parsed[1].community)>>)
                /\ UNCHANGED <<fs, pc, fd, off, loc, now, nextId, returned, saved,
                               failed, tampered>>
           ELSE /\ nextId <= MaxCalls
                /\ LET data  == load_data(fs)
                       entry == NewEntry(data, v.parsed[1], now_iso(now), Uuid4(nextId))
                   IN  loc' = [loc EXCEPT ![w] = [payload |-> payload,
                                                  data    |-> WithEntry(data, entry),
                                                  entry   |-> <<entry>>]]
                /\ pc' = [pc EXCEPT ![w] = "save"]
                /\ nextId' = nextId + 1
                /\ UNCHANGED <<fs, fd, off, now, last, returned, saved, failed, tampered>>

\* lines 47-48: save_data(data) is entered and opens the temporary file for writing
SaveOpen(w) ==
    /\ pc[w] = "save"
    /\ LET f == FsOpenW(fs, TmpFile)
       IN  /\ fd' = [fd EXCEPT ![w] = f.names[TmpFile]]
           /\ fs' = FsGc(f, fd')
    /\ off' = [off EXCEPT ![w] = 1]
    /\ pc' = [pc EXCEPT ![w] = "write"]
    /\ saved' = saved \cup {loc[w].data}
    /\ UNCHANGED <<loc, now, nextId, last, returned, failed, tampered>>

\* line 49: json.dump writes the next block; after the last one the file is closed
SaveWrite(w) ==
    /\ pc[w] = "write"
    /\ LET text == Serialize(loc[w].data)
           done == off[w] = Len(text)
       IN  /\ fd' = [fd EXCEPT ![w] = IF done THEN 0 ELSE fd[w]]
           /\ fs' = FsGc(FsWrite(fs, fd[w], off[w], text[off[w]]), fd')
           /\ off' = [off EXCEPT ![w] = IF done THEN 0 ELSE off[w] + 1]
           /\ pc' = [pc EXCEPT ![w] = IF done THEN "replace" ELSE "write"]
    /\ UNCHANGED <<loc, now, nextId, last, returned, saved, failed, tampered>>

\* lines 50 and 129: tmp.replace(DATA_FILE), then the 201; FileNotFoundError when the
\* temporary file is gone, which the server answers with 500
SaveReplace(w) ==
    /\ pc[w] = "replace"
    /\ IF fs.names[TmpFile] = 0
       THEN /\ last' = Response("add", loc[w].payload, 500,
                                <<"error", "FileNotFoundError">>)
            /\ failed' = TRUE
            /\ UNCHANGED <<fs, returned>>
       ELSE /\ fs' = FsGc(FsReplace(fs, TmpFile, DATA_FILE), fd)
            /\ last' = Response("add", loc[w].payload, 201,
                                <<"entry", loc[w].entry[1]>>)
            /\ returned' = Append(returned, loc[w].entry[1])
            /\ UNCHANGED failed
    /\ pc' = [pc EXCEPT ![w] = "idle"]
    /\ loc' = [loc EXCEPT ![w] = NoLoc]
    /\ UNCHANGED <<fd, off, now, nextId, saved, tampered>>

\* a save that writes the store as it is in the file now, plus the new entry
SaveDataMerging(w) ==
    /\ pc[w] = "save"
    /\ LET data    == WithEntry(load_data(fs), loc[w].entry[1])
           opened  == FsOpenW(fs, TmpFile)
           written == [opened EXCEPT !.inodes[opened.names[TmpFile]] = Serialize(data)]
       IN  /\ fs' = FsGc(FsReplace(written, TmpFile, DATA_FILE), fd)
           /\ saved' = saved \cup {data}
    /\ last' = Response("add", loc[w].payload, 201, <<"entry", loc[w].entry[1]>>)
    /\ returned' = Append(returned, loc[w].entry[1])
    /\ pc' = [pc EXCEPT ![w] = "idle"]
    /\ loc' = [loc EXCEPT ![w] = NoLoc]
    /\ UNCHANGED <<fd, off, now, nextId, failed, tampered>>

\* lines 45-50 and 129 as one step: save_data(data) from its open to its replace with
\* no other request in between, then the 201
SaveData(w) ==
    /\ pc[w] = "save"
    /\ LET opened  == FsOpenW(fs, TmpFile)
           written == [opened EXCEPT !.inodes[opened.names[TmpFile]] =
                           Serialize(loc[w].data)]
       IN  fs' = FsGc(FsReplace(written, TmpFile, DATA_FILE), fd)
    /\ saved' = saved \cup {loc[w].data}
    /\ last' = Response("add", loc[w].payload, 201, <<"entry", loc[w].entry[1]>>)
    /\ returned' = Append(returned, loc[w].entry[1])
    /\ pc' = [pc EXCEPT ![w] = "idle"]
    /\ loc' = [loc EXCEPT ![w] = NoLoc]
    /\ UNCHANGED <<fd, off, now, nextId, failed, tampered>>

(***************************************************************************)
(* The read routes: one load_data, one response.                           *)
(***************************************************************************)
GetMessagesGrouped(w) ==
    /\ pc[w] = "idle"
    /\ last' = Response("get_all", <<"none">>, 200, <<"dict", load_data(fs)>>)
    /\ UNCHANGED <<fs, pc, fd, off, loc, now, nextId, returned, saved, failed, tampered>>

\* a listing that creates the community it is asked about and saves the dict
GetMessagesForCommunitySaves(w, community) ==
    /\ pc[w] = "idle"
    /\ fs.names[DATA_FILE] # 0
    /\ LET data == StorePut(load_data(fs), community, StoreGet(load_data(fs), community))
       IN  /\ last' = Response("get", <<"community", community>>, 200,
                               <<"list", StoreGet(data, community)>>)
           /\ fs' = [fs EXCEPT !.inodes[fs.names[DATA_FILE]] = Serialize(data)]
    /\ UNCHANGED <<pc, fd, off, loc, now, nextId, returned, saved, failed, tampered>>

GetMessagesForCommunity(w, community) ==
    /\ pc[w] = "idle"
    /\ last' = Response("get", <<"community", community>>, 200,
                        <<"list", StoreGet(load_data(fs), community)>>)
    /\ UNCHANGED <<fs, pc, fd, off, loc, now, nextId, returned, saved, failed, tampered>>

\* an exception of the scan is answered by the server with 500
VerifyChain(w, community) ==
    /\ pc[w] = "idle"
    /\ LET r == verify_chain(load_data(fs), community)
       IN  last' = IF IsRaised(r)
                   THEN Response("verify", <<"community", community>>, 500,
                                 <<"error", r.raised>>)
                   ELSE Response("verify", <<"community", community>>, 200,
                                 <<"report", r>>)
    /\ UNCHANGED <<fs, pc, fd, off, loc, now, nextId, returned, saved, failed, tampered>>

(***************************************************************************)
(* The environment: time passes; the process dies in the middle of a save  *)
(* and is started again; the data file is edited by hand.                  *)
(***************************************************************************)
Tick ==
    /\ now < MaxClock
    /\ now' = now + 1
    /\ UNCHANGED <<fs, pc, fd, off, loc, nextId, last, returned, saved, failed, tampered>>

\* the process is killed while w is between the start of add_message's save and the
\* rename; its descriptor is closed, the files stay as they are
Crash(w) ==
    /\ pc[w] \in {"save", "write", "replace"}
    /\ pc' = [pc EXCEPT ![w] = "idle"]
    /\ fd' = [fd EXCEPT ![w] = 0]
    /\ off' = [off EXCEPT ![w] = 0]
    /\ loc' = [loc EXCEPT ![w] = NoLoc]
    /\ fs' = FsGc(fs, fd')
    /\ last' = Response("add", loc[w].payload, 0, <<"error", "killed">>)
    /\ UNCHANGED <<now, nextId, returned, saved, failed, tampered>>

\* the entry before the i-th of history carries this hash (none before the first)
HashBefore(history, i) == IF i = 1 THEN <<>> ELSE history[i - 1].hash

TamperKinds == {"message", "rehash", "unlink"}

\* what a hand edit of the given kind makes of the i-th entry of the chain
Edited(history, community, i, kind) ==
    LET e == history[i]
    IN  CASE kind = "message" -> [e EXCEPT !.message = Rep("z", 1)]
          [] kind = "rehash"  -> [e EXCEPT !.hash = generate_hash(e.message, e.timestamp,
                                                    community, HashBefore(history, i))]
          [] kind = "unlink"  -> [e EXCEPT !.prev_hash = Rep("z", 1)]

\* somebody edits one field of one stored entry in the data file, between requests
Tamper(community, i, kind) ==
    /\ tampered < MaxTamper
    /\ \A w \in Workers : pc[w] = "idle"
    /\ LET data    == load_data(fs)
           history == StoreGet(data, community)
       IN  /\ i \in 1..Len(history)
           /\ Edited(history, community, i, kind) # history[i]
           /\ fs' = [fs EXCEPT !.inodes[fs.names[DATA_FILE]] =
                        Serialize(StorePut(data, community,
                            [history EXCEPT ![i] = Edited(history, community, i, kind)]))]
    /\ tampered' = tampered + 1
    /\ UNCHANGED <<pc, fd, off, loc, now, nextId, last, returned, saved, failed>>

\* somebody replaces the data file's content by a text written by hand, between
\* requests
Overwrite(text) ==
    /\ tampered < MaxTamper
    /\ \A w \in Workers : pc[w] = "idle"
    /\ fs.names[DATA_FILE] # 0
    /\ FsText(fs, DATA_FILE) # text
    /\ fs' = [fs EXCEPT !.inodes[fs.names[DATA_FILE]] = text]
    /\ tampered' = tampered + 1
    /\ UNCHANGED <<pc, fd, off, loc, now, nextId, last, returned, saved, failed>>

\* somebody removes the data file, between requests: open(DATA_FILE) raises until the
\* next save
RemoveDataFile ==
    /\ tampered < MaxTamper
    /\ \A w \in Workers : pc[w] = "idle"
    /\ fs.names[DATA_FILE] # 0
    /\ fs' = FsGc([fs EXCEPT !.names[DATA_FILE] = 0], fd)
    /\ tampered' = tampered + 1
    /\ UNCHANGED <<pc, fd, off, loc, now, nextId, last, returned, saved, failed>>

(***************************************************************************)
(* Inputs.                                                                 *)
(***************************************************************************)
\* an entry as an earlier run of the program wrote it: message m in community c,
\* identified by word, linked to the hash prev
Old(c, m, word, prev) ==
    [id        |-> Lit(word),
     community |-> c,
     author    |-> Lit("anonymous"),
     message   |-> m,
     timestamp |-> now_iso(0),
     prev_hash |-> prev,
     hash      |-> generate_hash(m, now_iso(0), c, prev)]

\* entry e without its field k
Without(e, k) == [f \in DOMAIN e \ {k} |-> e[f]]

L1 == Old(Rep("c", 1), Rep("a", 1), "o1", <<>>)
L2 == Old(Rep("d", 1), Rep("a", 1), "o2", <<>>)
L3 == Old(Rep("c", 1), Rep("b", 1), "o3", L1.hash)
L4 == Without(Old(Lit("unknown"), Rep("a", 1), "o4", <<>>), "community")
L5 == Without(Old(Lit("unknown"), Rep("b", 1), "o5", L4.hash), "community")

\* a list item that is a number
Five == [scalar |-> JNum(5)]

\* data files whose content json.load rejects, or accepts as a value that is neither
\* a dict nor a list
CorruptTexts ==
    { <<>>,
      <<KeyBlock(Rep("c", 1)), EntryBlock(L1)>>,
      <<DocBlock(JNum(5))>>,
      <<DocBlock(JStr(Rep("c", 1)))>>,
      <<DocBlock(JNull)>> }

\* data files in the legacy shape: a flat list of entries
LegacyTexts ==
    { <<DocBlock(JList(<<>>))>>,
      <<DocBlock(JList(<<L1, L2, L3>>))>>,
      <<DocBlock(JList(<<L4, L1, L1, L5, L2, L3>>))>>,
      <<DocBlock(JList(<<L1, Five, L3>>))>> }

\* data files that hold a dict with values or entries the program never writes
MalformedTexts ==
    { <<DocBlock(JDict(<< <<Rep("c", 1), JList(<<L1, L3>>)>>, <<Rep("d", 1), JNum(5)>> >>))>>,
      <<DocBlock(JDict(<< <<Rep("d", 1), JNull>>, <<Rep("c", 1), JStr(Rep("a", 1))>> >>))>>,
      <<DocBlock(JDict(<< <<Rep("c", 1), JList(<<L1, Without(L3, "message")>>)>> >>))>>,
      <<DocBlock(JDict(<< <<Rep("c", 1), JList(<<Without(L1, "timestamp")>>)>> >>))>>,
      <<DocBlock(JDict(<< <<Rep("c", 1), JList(<<Without(L1, "hash"), L3>>)>> >>))>>,
      <<DocBlock(JDict(<< <<Rep("c", 1), JList(<<Without(Without(L1, "id"), "prev_hash")>>)>> >>))>>,
      <<DocBlock(JDict(<< <<Rep("c", 1), JList(<<L1, Five>>)>> >>))>> }

HandTexts == CorruptTexts \cup LegacyTexts \cup MalformedTexts

Post(community, message) == JObj([community |-> JStr(community), message |-> JStr(message)])

\* the requests of the sequential runs
Payloads ==
    { Post(Rep("c", 1), Rep("a", 1)),
      Post(Rep("c", 1), Rep("b", 1)),
      Post(Rep("d", 1), Rep("a", 1)),
      JObj([community |-> JStr(Rep("c", 1))]) }

\* the requests of the concurrent runs
ConcurrentPayloads ==
    { Post(Rep("c", 1), Rep("a", 1)),
      Post(Rep("d", 1), Rep("a", 1)),
      JObj([community |-> JStr(Rep("c", 1))]) }

\* the requests that exercise every branch of validate_message_payload
ValidationPayloads ==
    { JNull,
      JList(<<>>),
      JObj([message |-> JStr(Rep("a", 1))]),
      JObj([community |-> JNum(5), message |-> JStr(Rep("a", 1))]),
      JObj([community |-> JList(<<JNum(1)>>), message |-> JStr(Rep("a", 1))]),
      Post(<<>>, Rep("a", 1)),
      Post(Rep(" ", 2), Rep("a", 1)),
      Post(Rep("\t", 1) \o Rep(" ", 1), Rep("a", 1)),
      JObj([community |-> JStr(Rep("c", 1))]),
      JObj([community |-> JStr(Rep("c", 1)), message |-> JNull]),
      JObj([community |-> JStr(Rep("c", 1)), message |-> JNum(7)]),
      JObj([community |-> JStr(Rep("c", 1)), message |-> JNum(0)]),
      Post(Rep("c", 1), <<>>),
      Post(Rep("c", 1), Rep(" ", 3)),
      Post(Rep("c", 1), Rep(" ", 1) \o Rep("a", 1) \o Rep(" ", 1)),
      Post(Rep("c", 1), Rep("a", MAX_MESSAGE_LEN)),
      Post(Rep("c", 1), Rep(" ", 1) \o Rep("a", MAX_MESSAGE_LEN) \o Rep("\t", 1)),
      Post(Rep("c", 1), Rep("a", MAX_MESSAGE_LEN + 1)),
      Post(Rep("c", 1), Rep("a", MAX_MESSAGE_LEN) \o Rep(" ", 1) \o Rep("b", 1)),
      Post(Rep(" ", 1) \o Rep("d", 1) \o Rep(" ", 1), Rep("b", 1) \o Rep("|", 1)),
      JObj([community |-> JStr(Rep("c", 1)), message |-> JStr(Rep("a", 1)),
            author |-> JStr(Rep(" ", 1) \o Rep("x", 1))]),
      JObj([community |-> JStr(Rep("c", 1)), message |-> JStr(Rep("a", 1)),
            author |-> JNum(5)]),
      JObj([community |-> JStr(Rep("c", 1)), message |-> JStr(Rep("a", 1)),
            author |-> JStr(<<>>)]),
      JObj([community |-> JStr(Rep("c", 1)), message |-> JStr(Rep("a", 1)),
            author |-> JList(<<JNum(1)>>)]) }

\* the communities the read routes are asked about; "g" never gets a message
Communities == {Rep("c", 1), Rep("d", 1), Rep("g", 1)}

(***************************************************************************)
(* Specifications.                                                         *)
(***************************************************************************)
\* two request threads serving requests that arrive within one second
Next ==
    \/ \E w \in Workers, payload \in ConcurrentPayloads : AddMessage(w, payload)
    \/ \E w \in Workers : SaveOpen(w)
    \/ \E w \in Workers : SaveWrite(w)
    \/ \E w \in Workers : SaveReplace(w)
    \/ \E w \in Workers : GetMessagesForCommunity(w, Rep("c", 1))
    \/ \E w \in Workers : VerifyChain(w, Rep("c", 1))

Spec == Init /\ [][Next]_vars

\* one request at a time, while the clock runs
NextSeq ==
    \/ \E payload \in Payloads : AddMessage("w1", payload)
    \/ SaveOpen("w1")
    \/ SaveWrite("w1")
    \/ SaveReplace("w1")
    \/ GetMessagesGrouped("w1")
    \/ \E c \in {Rep("c", 1), Rep("g", 1)} : GetMessagesForCommunity("w1", c)
    \/ \E c \in {Rep("c", 1), Rep("g", 1)} : VerifyChain("w1", c)
    \/ Tick

SpecSeq == Init /\ [][NextSeq]_vars

\* one request at a time; the process may be killed during a save and started again
NextCrash ==
    \/ \E payload \in Payloads : AddMessage("w1", payload)
    \/ SaveOpen("w1")
    \/ SaveWrite("w1")
    \/ SaveReplace("w1")
    \/ Crash("w1")

SpecCrash == Init /\ [][NextCrash]_vars

\* one request at a time, every kind of request body
NextValid ==
    \/ \E payload \in ValidationPayloads : AddMessage("w1", payload)
    \/ SaveOpen("w1")
    \/ SaveWrite("w1")
    \/ SaveReplace("w1")

SpecValid == Init /\ [][NextValid]_vars

\* one request at a time, and hand edits of the data file
NextTamper ==
    \/ \E payload \in ConcurrentPayloads : AddMessage("w1", payload)
    \/ SaveOpen("w1")
    \/ SaveWrite("w1")
    \/ SaveReplace("w1")
    \/ VerifyChain("w1", Rep("c", 1))
    \/ \E c \in Communities, i \in 1..MaxCalls, kind \in TamperKinds : Tamper(c, i, kind)

SpecTamper == Init /\ [][NextTamper]_vars

\* no writes: the read routes on data files written or removed by hand
NextLegacy ==
    \/ \E text \in HandTexts : Overwrite(text)
    \/ RemoveDataFile
    \/ GetMessagesGrouped("w1")
    \/ \E c \in Communities \cup {Lit("unknown")} : GetMessagesForCommunity("w1", c)
    \/ \E c \in Communities \cup {Lit("unknown")} : VerifyChain("w1", c)

SpecLegacy == Init /\ [][NextLegacy]_vars

\* one request at a time, on a data file that gets damaged or removed
NextCorrupt ==
    \/ \E payload \in ConcurrentPayloads : AddMessage("w1", payload)
    \/ SaveOpen("w1")
    \/ SaveWrite("w1")
    \/ SaveReplace("w1")
    \/ VerifyChain("w1", Rep("c", 1))
    \/ \E text \in CorruptTexts : Overwrite(text)
    \/ RemoveDataFile

SpecCorrupt == Init /\ [][NextCorrupt]_vars

\* two request threads serving requests that arrive within one second, every
\* load_data and every save_data one indivisible step
NextAtomic ==
    \/ \E w \in Workers, payload \in ConcurrentPayloads : AddMessage(w, payload)
    \/ \E w \in Workers : SaveData(w)
    \/ \E w \in Workers : VerifyChain(w, Rep("c", 1))

SpecAtomic == Init /\ [][NextAtomic]_vars

(***************************************************************************)
(* Properties.                                                             *)
(***************************************************************************)
\* the store as load_data reads it now, and one community's chain in it
Persisted == load_data(fs)

Chain(c) == StoreGet(Persisted, c)

IsPrefix(s, t) == Len(s) <= Len(t) /\ SubSeq(t, 1, Len(s)) = s

Linked(h) == \A i \in DOMAIN h : h[i].prev_hash = HashBefore(h, i)

AllIdle == \A w \in Workers : pc[w] = "idle"

\* C1: when add_message calls to one community have all returned 201, that
\* community's persisted chain holds every returned entry exactly once, the entries
\* are pairwise distinct, and the chain is linked: no append is lost.
C1_NoLostAppend ==
    (/\ AllIdle
     /\ ~failed
     /\ \A i \in DOMAIN returned : returned[i].community = Rep("c", 1))
    => LET h == Chain(Rep("c", 1))
       IN  /\ \A i \in DOMAIN returned :
                 Cardinality({j \in DOMAIN h : h[j] = returned[i]}) = 1
           /\ \A i, j \in DOMAIN returned : i # j => returned[i] # returned[j]
           /\ Linked(h)

\* C2: the persisted chain of every community only grows: across every step the
\* chain before is a prefix of the chain after.
C2_AppendOnly ==
    [][\A c \in Keys(load_data(fs)) :
          IsPrefix(StoreGet(load_data(fs), c), StoreGet(load_data(fs'), c))]_vars

\* C3: at every instant the data file holds the complete serialization of a dict
\* that was passed to save_data, or the initial content.
C3_DataFileAlwaysComplete ==
    FsText(fs, DATA_FILE) \in {Serialize(d) : d \in saved \cup {EmptyStore}}

\* C5: every persisted chain is linked: the first entry's prev_hash is empty and
\* every later entry's prev_hash is the hash of the entry before it.
C5_ChainLinkage == \A c \in Keys(Persisted) : Linked(Chain(c))

\* C4: a save_data that is killed before its rename leaves the data file's complete
\* old content in place, and one whose rename completes leaves exactly the complete
\* new content: across every step the data file either stays as it is or, on the
\* step that ends the save with its 201, becomes the serialization of the dict being
\* saved, so load_data returns the full old or the full new dict.
C4_CrashSafeSave ==
    [][IF \E w \in Workers : pc[w] = "replace" /\ pc'[w] = "idle" /\ last'.status = 201
       THEN \A w \in Workers :
                (pc[w] = "replace" /\ pc'[w] = "idle")
                => /\ FsText(fs', DATA_FILE) = Serialize(loc[w].data)
                   /\ load_data(fs') = loc[w].data
       ELSE /\ FsText(fs', DATA_FILE) = FsText(fs, DATA_FILE)
            /\ load_data(fs') = load_data(fs)]_vars

\* a save was killed half way through its writes: the temporary file holds a partial
\* text, next to a data file that holds entries
C4_Witness ==
    /\ last.op = "add" /\ last.status = 0
    /\ fs.names[TmpFile] # 0
    /\ FsText(fs, TmpFile) # <<>>
    /\ ~JsonLoad(FsText(fs, TmpFile)).ok
    /\ Persisted # EmptyStore

\* C6: after N add_message calls made one after another and returned with 201,
\* verify_chain reports ok with count N for the community, for every community.
C6_VerifyAfterAppends ==
    /\ \A c \in Communities :
          verify_chain(Persisted, c) =
              [ok |-> TRUE,
               count |-> Cardinality({i \in DOMAIN returned : returned[i].community = c})]
    /\ last.op = "verify" => last.body[2].ok

\* three different messages were appended to one community and the verification
\* that followed answered ok with count 3
C6_Witness ==
    /\ last.op = "verify"
    /\ last.body = <<"report", [ok |-> TRUE, count |-> 3]>>
    /\ Len(returned) = 3
    /\ \A i \in DOMAIN returned : returned[i].community = last.arg[2]
    /\ returned[1].message # returned[2].message
    /\ returned[2].timestamp # returned[3].timestamp

\* the positions of chain h of community c that verify_chain's test rejects
BrokenAt(h, c) ==
    {i \in DOMAIN h :
        \/ h[i].hash # generate_hash(h[i].message, h[i].timestamp, c, HashBefore(h, i))
        \/ h[i].prev_hash # HashBefore(h, i)}

Min(S) == CHOOSE x \in S : \A y \in S : x <= y

\* with file system f: a chain with a bad entry is reported broken at its first one
FirstBreakReported(f) ==
    \A c \in Communities :
        LET h == StoreGet(load_data(f), c)
            b == BrokenAt(h, c)
        IN  b # {} => verify_chain(load_data(f), c) =
                          [ok |-> FALSE, index |-> Min(b) - 1, id |-> h[Min(b)].id,
                           reason |-> BROKEN]

\* from file system f to g only the message of the i-th entry of c's chain changed
OnlyMessageChanged(f, g, c, i) ==
    LET h == StoreGet(load_data(f), c)
        k == StoreGet(load_data(g), c)
    IN  /\ Len(k) = Len(h)
        /\ i \in DOMAIN h
        /\ k[i].message # h[i].message
        /\ k = [h EXCEPT ![i] = [h[i] EXCEPT !.message = k[i].message]]

\* C7: verify_chain reports the first bad entry only, with its index and id; and a
\* step that changes nothing but the message of entry i of a chain that verified
\* makes verify_chain report that chain broken at index i.
C7_FirstBreakOnly ==
    [][/\ FirstBreakReported(fs')
       /\ \A c \in Communities, i \in 1..MaxCalls :
              (verify_chain(load_data(fs), c).ok /\ OnlyMessageChanged(fs, fs', c, i))
              => LET r == verify_chain(load_data(fs'), c)
                 IN  ~r.ok /\ r.index = i - 1 /\ r.id = StoreGet(load_data(fs), c)[i].id]_vars

\* a chain of three whose second message was edited in the file and whose third entry
\* is bad as well: the verification that followed reported index 1
C7_Witness ==
    LET h == Chain(Rep("c", 1))
    IN  /\ Len(h) = 3
        /\ h[2].message = Rep("z", 1)
        /\ BrokenAt(h, Rep("c", 1)) = {2, 3}
        /\ last.op = "verify"
        /\ last.body = <<"report", [ok |-> FALSE, index |-> 1, id |-> h[2].id,
                                    reason |-> BROKEN]>>

\* the reason validate_message_payload gives for a request body ("": none)
ErrorOf(payload) == validate_message_payload(payload).err

\* C8: an add_message call whose payload fails validation answers 400 with the
\* reason and changes nothing: not the files, not the store load_data reads, and no
\* save is under way for such a payload.
C8_RejectedLeavesStore ==
    [][/\ (last' # last /\ last'.op = "add" /\ ErrorOf(last'.arg) # "")
          => /\ last'.status = 400
             /\ last'.body = <<"error", ErrorOf(last'.arg)>>
             /\ fs' = fs
             /\ load_data(fs') = load_data(fs)
             /\ UNCHANGED <<pc, fd, off, loc, returned, saved>>
       /\ \A w \in Workers : pc'[w] # "idle" => ErrorOf(loc'[w].payload) = ""]_vars

\* a too long message was rejected while the store held entries
C8_Witness ==
    /\ last.op = "add"
    /\ last.status = 400
    /\ last.body = <<"error", "message too long">>
    /\ Persisted # EmptyStore
    /\ AllIdle

\* the payload is an object whose community is absent, not a string, or empty after
\* trimming
BlankCommunity(payload) ==
    /\ IsDict(payload)
    /\ LET c == PayloadGet(payload, "community")
       IN  ~IsStr(c) \/ Strip(c[2]) = <<>>

\* C9: a payload whose community is absent, not a string, empty or all whitespace is
\* answered with the missing-community error, no save is started for it, and no
\* entry is stored under the empty community or with an empty community field.
C9_BlankCommunityRejected ==
    /\ (last.op = "add" /\ BlankCommunity(last.arg))
       => (last.status = 400 /\ last.body = <<"error", "community is required">>)
    /\ \A w \in Workers : pc[w] # "idle" => ~BlankCommunity(loc[w].payload)
    /\ <<>> \notin Keys(Persisted)
    /\ \A c \in Keys(Persisted) : \A i \in DOMAIN Chain(c) : Chain(c)[i].community # <<>>

\* every stored message is non-empty, trimmed and at most MAX_MESSAGE_LEN long
StoredMessagesProper ==
    \A c \in Keys(Persisted) : \A i \in DOMAIN Chain(c) :
        LET m == Chain(c)[i].message
        IN  m # <<>> /\ Strip(m) = m /\ StrLen(m) <= MAX_MESSAGE_LEN

\* C10: with a community that is present, an absent, non-string or blank message is
\* answered with the missing-message error, a message longer than MAX_MESSAGE_LEN
\* after trimming with the too-long error, and any other message is accepted: the
\* call returns 201 with the trimmed message; every stored message is non-empty,
\* trimmed and at most MAX_MESSAGE_LEN long.
C10_MessageValidation ==
    /\ (last.op = "add" /\ IsDict(last.arg) /\ ~BlankCommunity(last.arg))
       => LET m == PayloadGet(last.arg, "message")
          IN  IF ~IsStr(m) \/ Strip(m[2]) = <<>>
              THEN last.status = 400 /\ last.body = <<"error", "message is required">>
              ELSE IF StrLen(Strip(m[2])) > MAX_MESSAGE_LEN
              THEN last.status = 400 /\ last.body = <<"error", "message too long">>
              ELSE last.status = 201 /\ last.body[2].message = Strip(m[2])
    /\ StoredMessagesProper

\* the message rules on the payloads whose validation does not raise: the same
\* answers as above, for every payload whose author is absent, falsy or a string
MessageRulesWhereNoRaise ==
    /\ (/\ last.op = "add" /\ IsDict(last.arg) /\ ~BlankCommunity(last.arg)
        /\ ~validate_message_payload(last.arg).raised)
       => LET m == PayloadGet(last.arg, "message")
          IN  IF ~IsStr(m) \/ Strip(m[2]) = <<>>
              THEN last.status = 400 /\ last.body = <<"error", "message is required">>
              ELSE IF StrLen(Strip(m[2])) > MAX_MESSAGE_LEN
              THEN last.status = 400 /\ last.body = <<"error", "message too long">>
              ELSE last.status = 201 /\ last.body[2].message = Strip(m[2])
    /\ StoredMessagesProper

\* a message of exactly MAX_MESSAGE_LEN characters after trimming was stored
MessageRulesWitness ==
    /\ last.op = "add" /\ last.status = 201
    /\ StrLen(last.body[2].message) = MAX_MESSAGE_LEN

\* C11: every verify_chain call completes with a verification report: status 200
\* and ok = TRUE with a count, or ok = FALSE with index, id and reason, whatever the
\* data file holds.
C11_VerifyAlwaysReports ==
    last.op = "verify"
    => /\ last.status = 200
       /\ last.body[1] = "report"
       /\ \/ DOMAIN last.body[2] = {"ok", "count"} /\ last.body[2].ok
          \/ DOMAIN last.body[2] = {"ok", "index", "id", "reason"} /\ ~last.body[2].ok

\* the reports on the chains whose entries are objects with message and timestamp:
\* there the scan always ends in a report
VerifyReportsOnWholeEntries ==
    \A c \in Communities :
        (\A i \in DOMAIN Chain(c) :
            IsObject(Chain(c)[i]) /\ {"message", "timestamp"} \subseteq DOMAIN Chain(c)[i])
        => ~IsRaised(verify_chain(Persisted, c))

\* a chain whose first entry lost its hash was reported broken at index 0
VerifyReportsWitness ==
    /\ last.op = "verify" /\ last.status = 200
    /\ ~last.body[2].ok
    /\ last.body[2].index = 0
    /\ Chain(Rep("c", 1)) # <<>>
    /\ "hash" \notin DOMAIN Chain(Rep("c", 1))[1]

\* the four rejection reasons of validate_message_payload
Reasons ==
    {"Invalid JSON", "community is required", "message is required", "message too long"}

\* C12: validate_message_payload is total: for every request body it gives one of
\* the four rejection reasons and no parsed value, or no reason and a parsed
\* {community, message, author}, and never raises; the parsed author is "anonymous"
\* for an absent or empty author and the trimmed author for any other string.
C12_ValidationTotal ==
    last.op = "add"
    => LET v == validate_message_payload(last.arg)
       IN  /\ ~v.raised
           /\ last.status # 500
           /\ \/ v.err \in Reasons /\ v.parsed = <<>>
              \/ /\ v.err = ""
                 /\ Len(v.parsed) = 1
                 /\ DOMAIN v.parsed[1] = {"community", "message", "author"}
                 /\ LET author == PayloadGet(last.arg, "author")
                    IN  /\ (author = JNull \/ author = JStr(<<>>))
                           => v.parsed[1].author = Lit("anonymous")
                        /\ (IsStr(author) /\ author[2] # <<>>)
                           => v.parsed[1].author = Strip(author[2])

\* the same on the request bodies whose author is absent, falsy or a string
ValidationTotalOnStringAuthors ==
    (last.op = "add" /\ IsDict(last.arg)
       /\ (~Truthy(PayloadGet(last.arg, "author")) \/ IsStr(PayloadGet(last.arg, "author"))))
    => LET v == validate_message_payload(last.arg)
       IN  /\ ~v.raised
           /\ \/ v.err \in Reasons /\ v.parsed = <<>>
              \/ v.err = "" /\ Len(v.parsed) = 1

\* C13: the save of an add_message to community c leaves the persisted chain of every
\* other community as it was: it removes or reverts no entry that another append
\* committed to another community, also when the appends interleave.
C13_OtherChainsUntouched ==
    [][\A w \in Workers :
          (pc[w] = "save" /\ pc'[w] = "idle" /\ last'.status = 201)
          => \A d \in Communities \ {loc[w].entry[1].community} :
                 StoreGet(load_data(fs'), d) = StoreGet(load_data(fs), d)]_vars

\* the text of the data file is one hand-written document
HoldsDoc(f) ==
    /\ f.names[DATA_FILE] # 0
    /\ Len(FsText(f, DATA_FILE)) = 1
    /\ FsText(f, DATA_FILE)[1][1] = "doc"

\* the document in the data file
DocOf(f) == FsText(f, DATA_FILE)[1][2]

\* C14: load_data always returns a mapping with distinct keys whose values are lists:
\* the empty mapping for a missing file, for a text json.load rejects and for a
\* document that is neither a mapping nor a sequence; for a mapping the same keys in
\* the same order, every list value as it is and [] for every other value; what the
\* read routes answer is that mapping.
C14_LoadAlwaysMapping ==
    LET data == load_data(fs)
    IN  /\ Cardinality(Keys(data)) = Len(data)
        /\ fs.names[DATA_FILE] = 0 => data = EmptyStore
        /\ (fs.names[DATA_FILE] # 0 /\ ~HoldsDoc(fs))
           => data = (IF JsonLoad(FsText(fs, DATA_FILE)).ok
                      THEN JsonLoad(FsText(fs, DATA_FILE)).data ELSE EmptyStore)
        /\ (HoldsDoc(fs) /\ DocOf(fs)[1] \notin {"dict", "list"}) => data = EmptyStore
        /\ (HoldsDoc(fs) /\ DocOf(fs)[1] = "dict")
           => /\ Len(data) = Len(DocOf(fs)[2])
              /\ \A i \in DOMAIN data :
                    LET v == DocOf(fs)[2][i][2]
                    IN  /\ data[i][1] = DocOf(fs)[2][i][1]
                        /\ v[1] = "list" => data[i][2] = v[2]
                        /\ v[1] # "list" => data[i][2] = <<>>
        /\ last.op = "get_all" => last.status = 200

\* the grouped listing was answered from a mapping that holds one list and one value
\* that is no list: the list came back whole, the other value as []
C14_Witness ==
    /\ HoldsDoc(fs)
    /\ DocOf(fs) = JDict(<< <<Rep("c", 1), JList(<<L1, L3>>)>>, <<Rep("d", 1), JNum(5)>> >>)
    /\ last.op = "get_all"
    /\ last.body = <<"dict", << <<Rep("c", 1), <<L1, L3>> >>, <<Rep("d", 1), <<>> >> >> >>

\* entry.get("community", "unknown")
CommunityOf(entry) == IF "community" \in DOMAIN entry THEN entry.community ELSE Lit("unknown")

RECURSIVE Listed(_)
\* the dict data as a document: what json.load reads back once it was saved
Listed(data) ==
    IF data = <<>> THEN <<>>
    ELSE << <<data[1][1], JList(data[1][2])>> >> \o Listed(Tail(data))

\* the data file holds a flat sequence of entries: objects whose community, where
\* they have one, is a string
HoldsLegacy(f) ==
    /\ HoldsDoc(f)
    /\ DocOf(f)[1] = "list"
    /\ \A i \in DOMAIN DocOf(f)[2] : IsObject(DocOf(f)[2][i])

\* C15: from a flat sequence of entries load_data returns a mapping whose keys are
\* the communities of the entries ("unknown" for an entry without one), under each
\* key the entries of that community in the order of the sequence, every occurrence
\* once and nothing else; normalizing the result again gives the same mapping.
C15_LegacyKeepsEveryEntry ==
    HoldsLegacy(fs)
    => LET entries == DocOf(fs)[2]
           data    == load_data(fs)
       IN  /\ Keys(data) = {CommunityOf(entries[i]) : i \in DOMAIN entries}
           /\ Cardinality(Keys(data)) = Len(data)
           /\ \A j \in DOMAIN data :
                 data[j][2] = SelectSeq(entries, LAMBDA e : CommunityOf(e) = data[j][1])
           /\ Normalize(JDict(Listed(data))) = data

\* the grouped listing of a legacy file that holds entries of three keys, one of them
\* twice and two without a community: six entries in, six entries out
C15_Witness ==
    /\ HoldsLegacy(fs)
    /\ DocOf(fs) = JList(<<L4, L1, L1, L5, L2, L3>>)
    /\ last.op = "get_all"
    /\ last.body = <<"dict", << <<Lit("unknown"), <<L4, L5>> >>,
                               <<Rep("c", 1), <<L1, L1, L3>> >>,
                               <<Rep("d", 1), <<L2>> >> >> >>

ReadOps == {"get_all", "get", "verify"}

\* C16: a step that answers get_messages_grouped, get_messages_for_community or
\* verify_chain leaves every file as it is: the data file's text, and so the store
\* load_data reads from it, are the same before and after, whatever the file holds and
\* whether or not the community asked about exists.
C16_ReadsChangeNothing ==
    [][(last' # last /\ last'.op \in ReadOps)
       => /\ fs' = fs
          /\ load_data(fs') = load_data(fs)
          /\ UNCHANGED <<pc, fd, off, loc, returned, saved>>]_vars

\* a community that does not exist was listed from a legacy file: the file is still
\* the flat list, and the community is not in it
C16_Witness ==
    /\ last.op = "get"
    /\ last.arg = <<"community", Rep("g", 1)>>
    /\ HoldsLegacy(fs)
    /\ DocOf(fs) = JList(<<L1, L2, L3>>)
    /\ Rep("g", 1) \notin Keys(Persisted)

\* C17: for a community without a chain in the persisted store
\* get_messages_for_community answers 200 with the empty list and verify_chain
\* answers 200 with ok = TRUE and count = 0.
C17_UnknownCommunityEmpty ==
    [][/\ (last' # last /\ last'.op = "get" /\ last'.arg[2] \notin Keys(load_data(fs)))
          => last'.status = 200 /\ last'.body = <<"list", <<>> >>
       /\ (last' # last /\ last'.op = "verify" /\ last'.arg[2] \notin Keys(load_data(fs)))
          => /\ last'.status = 200
             /\ last'.body = <<"report", [ok |-> TRUE, count |-> 0]>>]_vars

\* a community without a chain was verified while another community's chain held
\* entries: ok with count 0
C17_Witness ==
    /\ last.op = "verify"
    /\ last.arg = <<"community", Rep("g", 1)>>
    /\ last.body = <<"report", [ok |-> TRUE, count |-> 0]>>
    /\ Rep("g", 1) \notin Keys(Persisted)
    /\ Len(Chain(Rep("c", 1))) = 2

EntryFields == {"id", "community", "author", "message", "timestamp", "prev_hash", "hash"}

\* C18: with one request at a time, the step that completes an add_message with 201
\* for community c leaves c's persisted chain equal to the chain H it had, followed
\* by the returned entry, and every other chain as it was; the entry carries the
\* validated community, message and author, the hash of H's last entry as prev_hash
\* ("" for an empty H), the digest of (message, timestamp, community, prev_hash) as
\* hash, and a non-empty id, hash and timestamp.
C18_AppendPostcondition ==
    [][\A w \in Workers :
          (pc[w] = "replace" /\ pc'[w] = "idle" /\ last'.status = 201)
          => LET e == last'.body[2]
                 v == validate_message_payload(last'.arg).parsed[1]
                 H == StoreGet(load_data(fs), v.community)
             IN  /\ StoreGet(load_data(fs'), v.community) = Append(H, e)
                 /\ \A d \in (Keys(load_data(fs)) \cup Keys(load_data(fs'))) \ {v.community} :
                        StoreGet(load_data(fs'), d) = StoreGet(load_data(fs), d)
                 /\ DOMAIN e = EntryFields
                 /\ e.community = v.community
                 /\ e.message = v.message
                 /\ e.author = v.author
                 /\ e.prev_hash = (IF H = <<>> THEN <<>> ELSE H[Len(H)].hash)
                 /\ e.hash = generate_hash(e.message, e.timestamp, e.community, e.prev_hash)
                 /\ e.id # <<>> /\ e.hash # <<>> /\ e.timestamp # <<>>]_vars

\* the third append to one community, with an author to trim, returned the entry that
\* ends the chain and is linked to the second
C18_Witness ==
    LET h == Chain(Rep("c", 1))
    IN  /\ last.op = "add" /\ last.status = 201
        /\ PayloadGet(last.arg, "author") = JStr(Rep(" ", 1) \o Rep("x", 1))
        /\ Len(h) = 3
        /\ h[3] = last.body[2]
        /\ h[3].author = Rep("x", 1)
        /\ h[3].prev_hash = h[2].hash
        /\ Keys(Persisted) = {Rep("c", 1)}

\* C19: with every load_data and every save_data one indivisible step, every
\* persisted state verifies for every community, and every verification answers ok,
\* under every interleaving of add_message calls.
C19_AtomicStepsKeepChainsValid ==
    /\ \A c \in Communities :
          LET r == verify_chain(Persisted, c)
          IN  ~IsRaised(r) /\ r.ok /\ r.count = Len(Chain(c))
    /\ last.op = "verify" => (last.status = 200 /\ last.body[2].ok)

\* two appends to one community read the same tail and both returned 201; one save
\* overwrote the other, and the chain of one entry verified
C19_Witness ==
    /\ Len(returned) = 2
    /\ returned[1].community = Rep("c", 1)
    /\ returned[2].community = Rep("c", 1)
    /\ returned[1].prev_hash = <<>> /\ returned[2].prev_hash = <<>>
    /\ Chain(Rep("c", 1)) = <<returned[2]>>
    /\ last.op = "verify"
    /\ last.body = <<"report", [ok |-> TRUE, count |-> 1]>>

\* load_data gets nothing out of the data file: it is missing, json.load rejects its
\* text, or the text is a document that is neither a dict nor a list
Unusable(f) ==
    \/ f.names[DATA_FILE] = 0
    \/ HoldsDoc(f) /\ DocOf(f)[1] \notin {"dict", "list"}
    \/ f.names[DATA_FILE] # 0 /\ ~HoldsDoc(f) /\ ~JsonLoad(FsText(f, DATA_FILE)).ok

\* the store that holds the one entry e
Only(e) == << <<e.community, <<e>> >> >>

\* C20: an add_message that loads an unusable data file builds a dict that holds its
\* new entry alone, with an empty prev_hash; its save ends with 201 and leaves exactly
\* that dict persisted, and verify_chain on it reports ok with count 1.
C20_AddOnUnusableFile ==
    [][\A w \in Workers :
          /\ (pc[w] = "idle" /\ pc'[w] = "save" /\ Unusable(fs))
             => /\ loc'[w].data = Only(loc'[w].entry[1])
                /\ loc'[w].entry[1].prev_hash = <<>>
          /\ (pc[w] = "replace" /\ pc'[w] = "idle" /\ Unusable(fs))
             => /\ last'.status = 201
                /\ load_data(fs') = Only(last'.body[2])
                /\ last'.body[2].prev_hash = <<>>
                /\ verify_chain(load_data(fs'), last'.body[2].community) =
                       [ok |-> TRUE, count |-> 1]
          /\ (last' # last /\ last'.op = "add" /\ Unusable(fs)
                /\ validate_message_payload(last'.arg).err = "")
             => last'.status = 201]_vars

\* an entry was stored, the data file was damaged, and the append that followed
\* was answered 201; the store holds that second entry alone and verified with count 1
C20_Witness ==
    /\ tampered = 1
    /\ Len(returned) = 2
    /\ returned[1].community = Rep("c", 1)
    /\ Persisted = Only(returned[2])
    /\ returned[2].community = Rep("c", 1)
    /\ last.op = "verify"
    /\ last.body = <<"report", [ok |-> TRUE, count |-> 1]>>

=============================================================================
